---- MODULE Spec2Model ----
(***************************************************************************)
(* The playbook execution engines of pysoar.                               *)
(*                                                                         *)
(*   Spec     the graph engine, src/playbooks/engine.py: execute() walks   *)
(*            the step graph, cancel() may run whenever execute() is       *)
(*            suspended on a step's action (asyncio, one thread).          *)
(*   SpecSvc  the sequential engine, src/services/playbook_engine.py:      *)
(*            execute() loads the records, runs the steps in list order    *)
(*            and reports to the notifier callback.                        *)
(*   FairSpec the graph engine on step graphs, with fair scheduling.       *)
(*   SpecRegistry  the action registry, src/playbooks/actions.py.          *)
(*   SpecBoth the two engines, one after the other, on a linear playbook.  *)
(*                                                                         *)
(* Python values are encoded as strings: None is NoneV, a key that is not  *)
(* in a dict is Absent, True and False are "True" and "False".             *)
(***************************************************************************)
EXTENDS Integers, Sequences, FiniteSets, TLC

VARIABLES
    steps,              \* the step list handed to execute()
    input_data,         \* the caller's input mapping, as it was passed
    execution,          \* the PlaybookExecution record
    current_execution,  \* engine.current_execution is the run's execution
    context,            \* the run's context dict
    step_results,       \* the run's list of step results
    current_step_id,    \* local of execute(): id of the step to run next
    step_index,         \* local of execute(): steps attempted / loop index
    result,             \* the result of the step in hand
    pc,                 \* where execute() stands
    raised,             \* the exception that escaped execute(), or NoneV
    env,                \* the collaborators of the sequential engine
    events,             \* what the notifier callback has received
    returned,           \* the Execution as execute() returned it
    outcomes,           \* what each awaited action did, in order
    first,              \* how the first of two runs in a row ended
    other,              \* a run of another playbook at the same time
    lookups             \* the calls of the registry functions, with results

vars == <<steps, input_data, execution, current_execution, context,
          step_results, current_step_id, step_index, result, pc, raised,
          env, events, returned, outcomes, first, other, lookups>>

----------------------------------------------------------------------------
(* Bounds *)

\* The longest step list the sequential engine is given
MaxSvcSteps == 2

(* Program constants *)

LoopFactor_Three == 2 + 1

\* execute() of the graph engine stops after len(steps) * 2 step attempts
LoopFactor == 2

(* Values *)

NoneV == "<None>"
Absent == "<absent>"

\* error_step is an Optional[int]: None
NoStep == -1

StepIds == <<"s1", "s2">>
MissingId == "zz"

PENDING == "pending"
RUNNING == "running"
COMPLETED == "completed"
FAILED == "failed"
CANCELLED == "cancelled"
PAUSED == "paused"

ExecutionStatus == {PENDING, RUNNING, COMPLETED, FAILED, CANCELLED, PAUSED}

ACTION_REGISTRY ==
    {"enrich_ip", "enrich_domain", "enrich_hash", "send_notification",
     "update_alert", "create_incident", "run_script", "conditional", "wait"}

NoAction == "<no action key>"

\* How a registered action fails when its collaborator is down for the run:
\* it returns success=False, it raises, or it does not return in time.
Failures == {"fail", "raise", "timeout"}

NoParams == [field |-> NoneV, operator |-> "equals", value |-> NoneV]

ConditionalParams ==
    {[field |-> "severity", operator |-> "equals", value |-> "high"],
     [field |-> "severity", operator |-> "equals", value |-> NoneV],
     [field |-> NoneV, operator |-> "equals", value |-> "high"]}

SeverityInputs == {Absent, "high", "low"}

\* The keys of the caller's input; None and {} are the input with no key set
InputKeys == {"severity", "score", "alert_id"}

NoInput == [k \in InputKeys |-> Absent]

----------------------------------------------------------------------------
(* Messages: str(e) of the exceptions and the error strings of the results *)

NoMessage == [text |-> NoneV, about |-> NoneV]
Message(t, a) == [text |-> t, about |-> a]

----------------------------------------------------------------------------
(* The step list *)

\* The ids an edge may name: no step, a step of the list, and (on_success
\* only) an id that no step has
Targets(n) == {NoneV} \cup {StepIds[i] : i \in 1..n}

\* The i-th step of a list of n steps, its condition p if it is conditional.
\* A step without an action key is never got past, so it is listed once,
\* without edges.
StepDefs(i, n, actions, cond, p) ==
    UNION {{[id |-> StepIds[i], action |-> a,
             parameters |-> IF a = cond THEN p ELSE NoParams,
             on_success |-> s, on_failure |-> f, continue_on_error |-> c] :
               s \in IF a = NoAction THEN {NoneV}
                     ELSE Targets(n) \cup {MissingId},
               f \in IF a = NoAction THEN {NoneV} ELSE Targets(n),
               c \in IF a = NoAction THEN {FALSE} ELSE BOOLEAN} :
           a \in actions}

\* The step lists: up to Len(StepIds) steps, the conditional steps of one
\* list testing the same condition
StepLists(actions, cond) ==
    {<<>>}
    \cup UNION {{<<a>> : a \in StepDefs(1, 1, actions, cond, p)} :
                  p \in ConditionalParams}
    \cup UNION {{<<a, b>> : a \in StepDefs(1, 2, actions, cond, p),
                            b \in StepDefs(2, 2, actions, cond, p)} :
                  p \in ConditionalParams}

\* The inputs that matter to a step list: severity is read by its conditions
ReadsSeverity(l) == \E i \in 1..Len(l) : l[i].parameters.field = "severity"

InputsFor(l) ==
    IF ReadsSeverity(l)
    THEN {[NoInput EXCEPT !["severity"] = v] : v \in SeverityInputs}
    ELSE {NoInput}

GraphActions == {"enrich_ip", "conditional", "nonexistent_action", NoAction}

\* step_lookup.get(id) finds a step
InLookup(id) == \E i \in 1..Len(steps) : steps[i].id = id

step_lookup(id) == steps[CHOOSE i \in 1..Len(steps) : steps[i].id = id]

Truthy(v) == v \notin {NoneV, Absent, "", "False"}

----------------------------------------------------------------------------
(* The context: a dict over the keys the model's actions read and write *)

ResultKey(id) ==
    IF id = "s1" THEN "step_s1_result"
    ELSE IF id = "s2" THEN "step_s2_result"
    ELSE IF id = "s3" THEN "step_s3_result"
    ELSE "step_o1_result"

MergedKeys ==
    {"step_id", "step_name", "action", "executed_at", "ip", "enrichment",
     "condition_met", "field", "operator", "expected", "actual", "alert_id",
     "updates", "waited_seconds", "reason"}

CtxKeys ==
    InputKeys
    \cup {"step_s1_result", "step_s2_result", "step_s3_result",
          "step_o1_result"}
    \cup MergedKeys

EmptyContext == [k \in CtxKeys |-> Absent]

\* dict.get(key): None for a key that is not there
Get(d, k) == IF k \in DOMAIN d /\ d[k] # Absent THEN d[k] ELSE NoneV

\* self.context.update(input_data or {}): the engine's context is kept
InitialContext_KeepsContext(inp) ==
    [k \in CtxKeys |->
        IF k \in InputKeys /\ inp[k] # Absent THEN inp[k] ELSE context[k]]

\* input_data or {}
InitialContext(inp) ==
    [k \in CtxKeys |-> IF k \in InputKeys THEN inp[k] ELSE Absent]

\* self.context = input_data or {}: a mapping with a key is not copied, the
\* context is the caller's dict itself; an empty one or None gives a new dict
SameObject(inp) == \E k \in InputKeys : inp[k] # Absent

\* What the caller's mapping holds: input_data is the mapping as it was
\* passed, and once execute() has bound its context to the same dict every
\* write to the context is a write to the caller's mapping. (For one run on
\* an engine: a later execute() binds the context to another dict.)
CallerMapping ==
    IF pc # "idle" /\ SameObject(input_data)
    THEN context
    ELSE InitialContext(input_data)

----------------------------------------------------------------------------
(* Step results: a dict over the keys below, Absent where a key is not set *)

ResultFields ==
    {"success", "error", "about", "step_id", "step_name", "action",
     "executed_at", "ip", "enrichment", "condition_met", "field", "operator",
     "expected", "actual", "alert_id", "updates", "waited_seconds", "reason"}

NoResult == [k \in ResultFields |-> Absent]

PyBool(b) == IF b THEN "True" ELSE "False"

\* ConditionalAction.execute with context.get(field, "") for context.get(field)
ConditionalAction_DefaultEmpty(parameters, ctx) ==
    LET field == parameters.field
        value == parameters.value
        actual_value == IF Get(ctx, field) = NoneV THEN "" ELSE Get(ctx, field)
    IN  IF ~Truthy(field)
        THEN [NoResult EXCEPT !["success"] = "False",
                              !["error"] = "No field specified for condition"]
        ELSE [NoResult EXCEPT !["success"] = "True",
                              !["condition_met"] = PyBool(actual_value = value),
                              !["field"] = field,
                              !["operator"] = parameters.operator,
                              !["expected"] = value,
                              !["actual"] = actual_value]

\* float(s) of the strings the model uses; any other string raises ValueError
Floats == {"25", "50", "75"}

float(v) == IF v = "25" THEN 25 ELSE IF v = "50" THEN 50 ELSE 75

\* ConditionalAction.execute raises: float() of a value that is no number
ConditionalRaises(parameters, ctx) ==
    /\ Truthy(parameters.field)
    /\ parameters.operator = "greater_than"
    /\ Truthy(Get(ctx, parameters.field))
    /\ \/ Get(ctx, parameters.field) \notin Floats
       \/ parameters.value \notin Floats

\* ConditionalAction.execute
ConditionalAction(parameters, ctx) ==
    LET field == parameters.field
        value == parameters.value
        actual_value == Get(ctx, field)
        met == IF parameters.operator = "equals"
               THEN actual_value = value
               ELSE IF parameters.operator = "greater_than"
               THEN IF Truthy(actual_value)
                    THEN float(actual_value) > float(value)
                    ELSE FALSE
               ELSE FALSE
    IN  IF ~Truthy(field)
        THEN [NoResult EXCEPT !["success"] = "False",
                              !["error"] = "No field specified for condition"]
        ELSE [NoResult EXCEPT !["success"] = "True",
                              !["condition_met"] = PyBool(met),
                              !["field"] = field,
                              !["operator"] = parameters.operator,
                              !["expected"] = value,
                              !["actual"] = actual_value]

\* UpdateAlertAction.execute
UpdateAlertAction(parameters, ctx) ==
    LET alert_id == IF Truthy(Get(parameters, "alert_id"))
                    THEN Get(parameters, "alert_id")
                    ELSE Get(ctx, "alert_id")
    IN  IF ~Truthy(alert_id)
        THEN [NoResult EXCEPT !["success"] = "False",
                              !["error"] = "No alert ID provided"]
        ELSE [NoResult EXCEPT !["success"] = "True",
                              !["alert_id"] = alert_id,
                              !["updates"] = "<dict>"]

\* WaitAction.execute with seconds = 0: it returns at once
WaitAction(parameters, ctx) ==
    [NoResult EXCEPT !["success"] = "True", !["waited_seconds"] = "0",
                     !["reason"] = "Scheduled wait"]

\* The registered actions that call no collaborator: what they return is a
\* function of their parameters and the context
LocalActions == {"conditional", "update_alert", "wait"}

\* execute() of a local action that returns
LocalAction(step, ctx) ==
    IF step.action = "conditional"
    THEN ConditionalAction(step.parameters, ctx)
    ELSE IF step.action = "update_alert"
    THEN UpdateAlertAction(step.parameters, ctx)
    ELSE WaitAction(step.parameters, ctx)

\* What a registered action with a collaborator hands back when it
\* returns: a success payload or a failure with an error string.
ActionReturn(outcome) ==
    IF outcome = "ok"
    THEN [NoResult EXCEPT !["success"] = "True", !["ip"] = "<ip>",
                          !["enrichment"] = "<dict>"]
    ELSE [NoResult EXCEPT !["success"] = "False",
                          !["error"] = "action reported failure"]

\* _execute_step, no such action in the registry
UnknownActionResult(step) ==
    [NoResult EXCEPT !["success"] = "False", !["error"] = "Unknown action",
                     !["about"] = step.action, !["step_id"] = step.id,
                     !["step_name"] = step.id]

\* _execute_step, the action returned: the result is tagged
TaggedResult(step, r) ==
    [r EXCEPT !["step_id"] = step.id, !["step_name"] = step.id,
              !["action"] = step.action, !["executed_at"] = "<now>"]

\* _execute_step, asyncio.TimeoutError
TimeoutResult(step) ==
    [NoResult EXCEPT !["success"] = "False",
                     !["error"] = "Step timed out after N seconds",
                     !["step_id"] = step.id, !["step_name"] = step.id,
                     !["action"] = step.action]

\* _execute_step, any other exception of the action
FaultResult(step) ==
    [NoResult EXCEPT !["success"] = "False", !["error"] = "str(e) of the fault",
                     !["step_id"] = step.id, !["step_name"] = step.id,
                     !["action"] = step.action]

\* result.get("success")
Succeeded(r) == Truthy(r["success"])

\* lines 67-72 of execute(): the context after a step
UpdateContext(ctx, step, r) ==
    [k \in CtxKeys |->
        IF Succeeded(r) /\ k \in MergedKeys /\ r[k] # Absent THEN r[k]
        ELSE IF k = ResultKey(step.id) THEN "<dict>"
        ELSE ctx[k]]

\* lines 74-95 with continue_on_error not read: a failed step takes its
\* on_failure edge or stops the run
NextStepId_NoContinue(step, r) ==
    IF Succeeded(r)
    THEN IF step.action = "conditional"
         THEN IF Truthy(r["condition_met"]) THEN step.on_success
              ELSE step.on_failure
         ELSE step.on_success
    ELSE IF Truthy(step.on_failure) THEN step.on_failure ELSE Absent

\* lines 74-95 of execute(): the id of the next step; Absent stands for the
\* PlaybookError raised when a failed step has no way out
NextStepId(step, r) ==
    IF Succeeded(r)
    THEN IF step.action = "conditional"
         THEN IF Truthy(r["condition_met"]) THEN step.on_success
              ELSE step.on_failure
         ELSE step.on_success
    ELSE IF step.continue_on_error THEN step.on_success
         ELSE IF Truthy(step.on_failure) THEN step.on_failure
              ELSE Absent

----------------------------------------------------------------------------
(* The execution record *)

NewExecution ==
    [status |-> PENDING, current_step |-> 0, total_steps |-> 0,
     started_at |-> NoneV, completed_at |-> NoneV,
     output_data |-> NoneV, step_results |-> NoneV,
     error_message |-> NoMessage, error_step |-> NoStep]

\* except PlaybookError
FailedByPlaybookError(e, msg, results) ==
    [e EXCEPT !.status = FAILED, !.error_message = msg,
              !.error_step = e.current_step, !.completed_at = "<now>",
              !.step_results = results]

\* except Exception
FailedByException(e, msg, results) ==
    [e EXCEPT !.status = FAILED, !.error_message = msg,
              !.completed_at = "<now>", !.step_results = results]

\* No first run has ended yet
NoFirst == [ids |-> <<>>, status |-> NoneV, engine |-> NoneV]

\* There is no other run
NoOther ==
    [shared |-> FALSE, pc |-> "idle", context |-> EmptyContext,
     step_results |-> <<>>, status |-> PENDING, output_data |-> NoneV]

----------------------------------------------------------------------------
(* The graph engine *)

\* The steps of l that run a registered action with a collaborator
CallsOut(l) ==
    \E i \in 1..Len(l) : l[i].action \in ACTION_REGISTRY \ LocalActions

GraphEnvs(l) ==
    {[execution_found |-> TRUE, playbook_found |-> TRUE, notifier |-> "none",
      variables |-> Absent, failure |-> f] : f \in IF CallsOut(l) THEN Failures ELSE {"fail"}}

Init ==
    /\ steps \in StepLists(GraphActions, "conditional")
    /\ input_data \in InputsFor(steps)
    /\ execution = NewExecution
    /\ current_execution = FALSE
    /\ context = EmptyContext
    /\ step_results = <<>>
    /\ current_step_id = NoneV
    /\ step_index = 0
    /\ result = NoResult
    /\ pc = "idle"
    /\ raised = NoneV
    /\ env \in GraphEnvs(steps)
    /\ events = <<>>
    /\ returned = NewExecution
    /\ outcomes = <<>>
    /\ first = NoFirst
    /\ lookups = <<>>
    /\ other = NoOther

\* execute(), lines 30-49: up to the first test of the loop
Execute ==
    /\ pc = "idle"
    /\ current_execution' = TRUE
    /\ context' = InitialContext(input_data)
    /\ step_results' = <<>>
    /\ execution' = [execution EXCEPT !.status = RUNNING,
                                      !.started_at = "<now>",
                                      !.total_steps = Len(steps)]
    /\ current_step_id' = IF Len(steps) > 0 THEN steps[1].id ELSE NoneV
    /\ step_index' = 0
    /\ pc' = "loop"
    /\ UNCHANGED <<lookups, first, other, steps, input_data, result, raised, env,
                   events, returned, outcomes>>

\* lines 51-58: the step is not in the lookup
StepNotFound ==
    /\ pc = "loop"
    /\ Truthy(current_step_id) /\ step_index < Len(steps) * LoopFactor
    /\ ~InLookup(current_step_id)
    /\ execution' = FailedByPlaybookError(execution,
                        Message("Step not found", current_step_id),
                        step_results)
    /\ pc' = "done"
    /\ returned' = execution'
    /\ UNCHANGED <<lookups, first, other, steps, input_data, current_execution, context,
                   step_results,
                   current_step_id, step_index, result, raised, env,
                   events, outcomes>>

\* lines 60-61 and _execute_step up to the await of the action, or up to
\* its return or its KeyError when it does not get that far
BeginStep ==
    /\ pc = "loop"
    /\ Truthy(current_step_id) /\ step_index < Len(steps) * LoopFactor
    /\ InLookup(current_step_id)
    /\ LET step == step_lookup(current_step_id)
           e == [execution EXCEPT !.current_step = step_index]
       IN  /\ step_index' = step_index + 1
           /\ IF step.action = NoAction
              THEN /\ execution' = FailedByException(e,
                                       Message("KeyError", "action"),
                                       step_results)
                   /\ pc' = "done"
                   /\ result' = result
                   /\ returned' = execution'
              ELSE IF step.action \notin ACTION_REGISTRY
              THEN /\ execution' = e
                   /\ result' = UnknownActionResult(step)
                   /\ pc' = "advance"
                   /\ returned' = returned
              ELSE /\ execution' = e
                   /\ result' = NoResult
                   /\ pc' = "await"
                   /\ returned' = returned
    /\ UNCHANGED <<lookups, first, other, steps, input_data, current_execution, context,
                   step_results,
                   current_step_id, raised, env, events, outcomes>>

\* _execute_step, lines 165-199: the awaited action returns, raises or
\* runs out of time
EndStep ==
    /\ pc = "await"
    /\ LET step == step_lookup(current_step_id)
       IN  \/ /\ step.action \in LocalActions
              /\ ~(step.action = "conditional"
                    /\ ConditionalRaises(step.parameters, context))
              /\ result' = TaggedResult(step, LocalAction(step, context))
              /\ outcomes' = Append(outcomes, "returned")
           \/ /\ step.action = "conditional"
              /\ ConditionalRaises(step.parameters, context)
              /\ result' = FaultResult(step)
              /\ outcomes' = Append(outcomes, "raise")
           \/ /\ step.action \notin LocalActions
              /\ result' = TaggedResult(step, ActionReturn("ok"))
              /\ outcomes' = Append(outcomes, "returned")
           \/ /\ step.action \notin LocalActions
              /\ env.failure = "fail"
              /\ result' = TaggedResult(step, ActionReturn("fail"))
              /\ outcomes' = Append(outcomes, "returned")
           \/ /\ step.action \notin LocalActions
              /\ env.failure = "timeout"
              /\ result' = TimeoutResult(step)
              /\ outcomes' = Append(outcomes, "timeout")
           \/ /\ step.action \notin LocalActions
              /\ env.failure = "raise"
              /\ result' = FaultResult(step)
              /\ outcomes' = Append(outcomes, "raise")
    /\ pc' = "advance"
    /\ UNCHANGED <<lookups, first, other, steps, input_data, execution,
                   current_execution, context,
                   step_results, current_step_id, step_index, raised, env,
                   events, returned>>

\* execute(), lines 65-95: the result is recorded and the next step chosen
Advance ==
    /\ pc = "advance"
    /\ LET step == step_lookup(current_step_id)
           next == NextStepId(step, result)
           results == Append(step_results, result)
       IN  /\ step_results' = results
           /\ context' = UpdateContext(context, step, result)
           /\ IF next = Absent
              THEN /\ execution' =
                        FailedByPlaybookError(execution,
                            Message("Step failed", result["error"]), results)
                   /\ current_step_id' = NoneV
                   /\ pc' = "done"
                   /\ returned' = execution'
              ELSE /\ execution' = execution
                   /\ current_step_id' = next
                   /\ pc' = "loop"
                   /\ returned' = returned
    /\ UNCHANGED <<lookups, first, other, steps, input_data, current_execution,
                   step_index, result,
                   raised, env, events, outcomes>>

\* lines 97-101: the loop is left
Complete ==
    /\ pc = "loop"
    /\ ~(Truthy(current_step_id) /\ step_index < Len(steps) * LoopFactor)
    /\ execution' = [execution EXCEPT !.status = COMPLETED,
                                      !.completed_at = "<now>",
                                      !.output_data = context,
                                      !.step_results = step_results]
    /\ pc' = "done"
    /\ returned' = execution'
    /\ UNCHANGED <<lookups, first, other, steps, input_data, current_execution, context,
                   step_results,
                   current_step_id, step_index, result, raised, env,
                   events, outcomes>>

\* cancel(): runs while execute() is suspended on an action, or after it
Cancel ==
    /\ pc \in {"idle", "await", "done"}
    /\ execution' = IF current_execution
                    THEN [execution EXCEPT !.status = CANCELLED,
                                           !.completed_at = "<now>"]
                    ELSE execution
    /\ UNCHANGED <<lookups, first, other, steps, input_data, current_execution, context,
                   step_results,
                   current_step_id, step_index, result, pc, raised, env,
                   events, returned, outcomes>>

Next ==
    \/ Execute
    \/ StepNotFound
    \/ BeginStep
    \/ EndStep
    \/ Advance
    \/ Complete
    \/ Cancel

Spec == Init /\ [][Next]_vars

\* A step of execute(): the event loop resumes the coroutine whenever it can
\* go on, and every awaited action returns, raises or times out
RunStep ==
    \/ Execute
    \/ StepNotFound
    \/ BeginStep
    \/ EndStep
    \/ Advance
    \/ Complete

\* The step graphs of actions that call out, of unknown actions and of steps
\* without an action: every shape of edges over two ids, cycles included
InitGraphs ==
    /\ steps \in StepLists(GraphActions \ {"conditional"}, "conditional")
    /\ input_data = NoInput
    /\ execution = NewExecution
    /\ current_execution = FALSE
    /\ context = EmptyContext
    /\ step_results = <<>>
    /\ current_step_id = NoneV
    /\ step_index = 0
    /\ result = NoResult
    /\ pc = "idle"
    /\ raised = NoneV
    /\ env \in GraphEnvs(steps)
    /\ events = <<>>
    /\ returned = NewExecution
    /\ outcomes = <<>>
    /\ first = NoFirst
    /\ other = NoOther
    /\ lookups = <<>>

\* Every step of execute() changes pc
FairSpec == InitGraphs /\ [][Next]_vars /\ WF_pc(RunStep)

----------------------------------------------------------------------------
(* The graph engine on playbooks of local actions: a condition on the      *)
(* input's score or alert_id, an alert update and a wait                   *)

Step(id, action, parameters, on_success, on_failure) ==
    [id |-> id, action |-> action, parameters |-> parameters,
     on_success |-> on_success, on_failure |-> on_failure,
     continue_on_error |-> FALSE]

\* The parameters of the update_alert steps: none, an alert id, and a
\* placeholder for the context's alert id
AlertParams ==
    {NoParams, [alert_id |-> "a1"], [alert_id |-> "{{alert_id}}"]}

FirstSteps ==
    {Step("s1", "conditional",
          [field |-> "score", operator |-> "greater_than", value |-> "50"],
          "s2", "s3"),
     Step("s1", "conditional",
          [field |-> "alert_id", operator |-> "equals", value |-> "a1"],
          NoneV, "s2"),
     Step("s1", "update_alert", [alert_id |-> "a1"], "s2", NoneV)}

SecondSteps ==
    {Step("s2", "update_alert", p, t, NoneV) :
        p \in AlertParams, t \in {NoneV, MissingId}}

LastStep == Step("s3", "wait", NoParams, NoneV, NoneV)

LocalPlaybooks == {<<a, b, LastStep>> : a \in FirstSteps, b \in SecondSteps}

LocalInputs ==
    {[NoInput EXCEPT !["score"] = sc, !["alert_id"] = al] :
        sc \in {Absent, "75", "25", "abc"}, al \in {Absent, "a1"}}

InitLocal ==
    /\ steps \in LocalPlaybooks
    /\ input_data \in LocalInputs
    /\ execution = NewExecution
    /\ current_execution = FALSE
    /\ context = EmptyContext
    /\ step_results = <<>>
    /\ current_step_id = NoneV
    /\ step_index = 0
    /\ result = NoResult
    /\ pc = "idle"
    /\ raised = NoneV
    /\ env \in GraphEnvs(steps)
    /\ events = <<>>
    /\ returned = NewExecution
    /\ outcomes = <<>>
    /\ first = NoFirst
    /\ lookups = <<>>
    /\ other = NoOther

SpecLocal == InitLocal /\ [][Next]_vars

----------------------------------------------------------------------------
(* Two runs in a row: the caller hands the same steps and input to          *)
(* execute() again, with a new PlaybookExecution, on a new engine or on the *)
(* engine of the first run                                                   *)

\* The ids of the steps a run executed, in order
ExecutedIds == [i \in 1..Len(step_results) |-> step_results[i]["step_id"]]

NewRun ==
    /\ pc = "done"
    /\ first = NoFirst
    /\ \E engine \in {"same", "new"} :
          /\ first' = [ids |-> ExecutedIds, status |-> returned.status,
                       engine |-> engine]
          /\ context' = IF engine = "new" THEN EmptyContext ELSE context
          /\ step_results' = IF engine = "new" THEN <<>> ELSE step_results
    /\ execution' = NewExecution
    /\ current_execution' = FALSE
    /\ current_step_id' = NoneV
    /\ step_index' = 0
    /\ result' = NoResult
    /\ pc' = "idle"
    /\ returned' = NewExecution
    /\ outcomes' = <<>>
    /\ UNCHANGED <<steps, input_data, raised, env, events, other, lookups>>

NextAgain ==
    \/ Next
    \/ NewRun

SpecAgain == InitLocal /\ [][NextAgain]_vars

----------------------------------------------------------------------------
(* Two runs at the same time: while the run above is suspended on an        *)
(* action, or before or after it, another task executes another playbook,   *)
(* on the same engine (the module's playbook_engine) or on one of its own   *)

OtherSteps == <<Step("o1", "update_alert", [alert_id |-> "b1"], NoneV, NoneV)>>

OtherInput == [NoInput EXCEPT !["severity"] = "critical"]

\* The other task may run when this one is not between two awaits
Suspended == pc \in {"idle", "await", "done"}

InitTwo ==
    /\ steps \in LocalPlaybooks
    /\ input_data \in LocalInputs
    /\ execution = NewExecution
    /\ current_execution = FALSE
    /\ context = EmptyContext
    /\ step_results = <<>>
    /\ current_step_id = NoneV
    /\ step_index = 0
    /\ result = NoResult
    /\ pc = "idle"
    /\ raised = NoneV
    /\ env \in GraphEnvs(steps)
    /\ events = <<>>
    /\ returned = NewExecution
    /\ outcomes = <<>>
    /\ first = NoFirst
    /\ lookups = <<>>
    /\ other \in {[NoOther EXCEPT !.shared = b] : b \in BOOLEAN}

\* execute() of the other run, lines 30-64: up to the await of its step
OtherExecute ==
    /\ Suspended
    /\ other.pc = "idle"
    /\ IF other.shared
       THEN /\ current_execution' = FALSE
            /\ context' = InitialContext(OtherInput)
            /\ step_results' = <<>>
            /\ other' = [other EXCEPT !.pc = "await", !.status = RUNNING]
       ELSE /\ other' = [other EXCEPT !.pc = "await", !.status = RUNNING,
                                      !.context = InitialContext(OtherInput),
                                      !.step_results = <<>>]
            /\ UNCHANGED <<current_execution, context, step_results>>
    /\ UNCHANGED <<lookups, first, steps, input_data, execution, current_step_id,
                   step_index, result, pc, raised, env, events, returned,
                   outcomes>>

\* execute() of the other run, lines 65-101: its step's action returns, the
\* result is recorded, there is no next step and the run is COMPLETED
OtherReturns ==
    /\ Suspended
    /\ other.pc = "await"
    /\ LET step == OtherSteps[1]
           ctx == IF other.shared THEN context ELSE other.context
           list == IF other.shared THEN step_results ELSE other.step_results
           r == TaggedResult(step, LocalAction(step, ctx))
           results == Append(list, r)
           after == UpdateContext(ctx, step, r)
           status == IF NextStepId(step, r) = Absent THEN FAILED
                     ELSE COMPLETED
       IN  /\ other' = [other EXCEPT !.pc = "done", !.status = status,
                                     !.context = after,
                                     !.step_results = results,
                                     !.output_data = after]
           /\ context' = IF other.shared THEN after ELSE context
           /\ step_results' = IF other.shared THEN results ELSE step_results
    /\ UNCHANGED <<lookups, first, steps, input_data, execution, current_execution,
                   current_step_id, step_index, result, pc, raised, env,
                   events, returned, outcomes>>

NextTwo ==
    \/ Execute
    \/ StepNotFound
    \/ BeginStep
    \/ EndStep
    \/ Advance
    \/ Complete
    \/ OtherExecute
    \/ OtherReturns

SpecTwo == InitTwo /\ [][NextTwo]_vars

----------------------------------------------------------------------------
(* The sequential engine *)

action_handlers ==
    {"send_email", "send_slack", "block_ip", "isolate_host", "disable_user",
     "create_ticket", "enrich_ioc", "run_script", "http_request",
     "update_alert", "update_incident", "add_comment", "assign_to", "wait",
     "condition"}

SvcActions == {"wait", "condition", "nonexistent_action"}

\* The step lists of the sequential engine: it reads no id and no edge
SvcStep(i, a, p, c) ==
    [id |-> IF i <= Len(StepIds) THEN StepIds[i] ELSE MissingId, action |-> a,
     parameters |-> IF a = "condition" THEN p ELSE NoParams,
     on_success |-> NoneV, on_failure |-> NoneV, continue_on_error |-> c]

SvcStepLists ==
    UNION {{[i \in 1..n |-> SvcStep(i, as[i], p, cs[i])] :
              as \in [1..n -> SvcActions], cs \in [1..n -> BOOLEAN],
              p \in ConditionalParams} : n \in 0..MaxSvcSteps}

SvcReadsSeverity(l) ==
    \E i \in 1..Len(l) : l[i].parameters.field = "severity"

SvcEnvs(l) ==
    {[execution_found |-> ef, playbook_found |-> pf, notifier |-> nf,
      failure |-> f, variables |-> v] :
        ef \in BOOLEAN, pf \in BOOLEAN,
        nf \in {"none", "ok", "faulty"}, f \in {"raise", "timeout"},
        v \in IF SvcReadsSeverity(l) THEN {Absent, "low"} ELSE {Absent}}

\* str(v)
Str(v) == IF v = NoneV THEN "None" ELSE v

\* dict.get(key, default)
GetOr(d, k, default) ==
    IF k \in DOMAIN d /\ d[k] # Absent THEN d[k] ELSE default

\* lines 364-369: the context is the input, updated with the variables
SvcInitialContext(inp, variables) ==
    [InitialContext(inp) EXCEPT
        !["severity"] = IF variables # Absent THEN variables
                        ELSE inp["severity"]]

SvcResultFields ==
    {"step", "name", "action", "executed_at", "error", "success",
     "condition_result"}

NoSvcEntry == [k \in SvcResultFields |-> Absent]

\* PlaybookAction._condition
Condition(parameters, ctx) ==
    LET field == IF parameters.field = NoneV THEN "" ELSE parameters.field
        actual_value == GetOr(ctx, field, "")
    IN  IF parameters.operator = "equals"
        THEN Str(actual_value) = Str(parameters.value)
        ELSE FALSE

\* PlaybookAction.execute: the result of a handler that returns
SvcActionResult(step, ctx) ==
    IF step.action \notin action_handlers
    THEN [success |-> "False", error |-> "Unknown action type",
          condition_result |-> Absent]
    ELSE IF step.action = "condition"
    THEN [success |-> "True", error |-> Absent,
          condition_result |-> PyBool(Condition(step.parameters, ctx))]
    ELSE [success |-> "True", error |-> Absent, condition_result |-> Absent]

\* lines 414-420: the entry of a step whose action returned
SvcEntry(i, step, r) ==
    [NoSvcEntry EXCEPT !["step"] = i, !["name"] = step.id,
                       !["action"] = step.action, !["executed_at"] = "<now>",
                       !["success"] = r.success, !["error"] = r.error,
                       !["condition_result"] = r.condition_result]

\* lines 447-453 and 462-468: the entry of a step that timed out or raised
SvcErrorEntry(i, step, msg) ==
    [NoSvcEntry EXCEPT !["step"] = i, !["name"] = step.id,
                       !["action"] = step.action, !["executed_at"] = "<now>",
                       !["error"] = msg]

\* lines 422-424
SvcUpdateContext(ctx, i, r) ==
    IF Truthy(r.success) /\ i <= Len(StepIds)
    THEN [ctx EXCEPT ![ResultKey(StepIds[i])] = "<dict>"]
    ELSE ctx

\* What a call of the notifier can do
NotifyOutcomes == IF env.notifier = "faulty" THEN {"ok", "raise"} ELSE {"ok"}

\* if notify_callback: await notify_callback(type, ...)
Notified(ev, type, i) ==
    IF env.notifier = "none" THEN ev ELSE Append(ev, [type |-> type, step |-> i])

SvcInit ==
    /\ steps \in SvcStepLists
    /\ input_data \in InputsFor(steps)
    /\ env \in SvcEnvs(steps)
    /\ execution = NewExecution
    /\ current_execution = FALSE
    /\ context = EmptyContext
    /\ step_results = <<>>
    /\ current_step_id = NoneV
    /\ step_index = 0
    /\ result = NoResult
    /\ pc = "idle"
    /\ raised = NoneV
    /\ events = <<>>
    /\ returned = NewExecution
    /\ outcomes = <<>>
    /\ first = NoFirst
    /\ lookups = <<>>
    /\ other = NoOther

\* lines 488-506: the handler of the outer try, then the flush and the return
SvcFail(e, msg, results, ev) ==
    \E o \in NotifyOutcomes :
        /\ execution' = [e EXCEPT !.status = FAILED, !.completed_at = "<now>",
                                  !.error_message = msg,
                                  !.error_step = e.current_step,
                                  !.step_results = results]
        /\ step_results' = results
        /\ events' = Notified(ev, "execution_failed", e.current_step)
        /\ IF o = "ok"
           THEN pc' = "done" /\ raised' = NoneV /\ returned' = execution'
           ELSE /\ pc' = "raised" /\ raised' = "fault of the notifier"
                /\ returned' = returned

\* lines 339-354: a record is not found
SvcNotFound ==
    /\ pc = "idle"
    /\ ~env.execution_found \/ ~env.playbook_found
    /\ raised' = "ValueError"
    /\ pc' = "raised"
    /\ UNCHANGED <<lookups, first, other, steps, input_data, execution,
                   current_execution, context,
                   step_results, current_step_id, step_index, result, env,
                   events, returned, outcomes>>

\* lines 357-362: there are no steps
SvcNoSteps ==
    /\ pc = "idle"
    /\ env.execution_found /\ env.playbook_found
    /\ Len(steps) = 0
    /\ execution' = [execution EXCEPT !.status = COMPLETED,
                                      !.completed_at = "<now>"]
    /\ pc' = "done"
    /\ returned' = execution'
    /\ UNCHANGED <<lookups, first, other, steps, input_data, current_execution, context,
                   step_results,
                   current_step_id, step_index, result, raised, env, events, outcomes>>

\* lines 364-384: the run starts
SvcStart ==
    /\ pc = "idle"
    /\ env.execution_found /\ env.playbook_found
    /\ Len(steps) > 0
    /\ context' = SvcInitialContext(input_data, env.variables)
    /\ execution' = [execution EXCEPT !.status = RUNNING,
                                      !.started_at = "<now>",
                                      !.current_step = 0]
    /\ events' = Notified(events, "execution_started", 0)
    /\ step_results' = <<>>
    /\ step_index' = 0
    /\ \E o \in NotifyOutcomes :
          IF o = "ok"
          THEN pc' = "loop" /\ raised' = NoneV
          ELSE pc' = "raised" /\ raised' = "fault of the notifier"
    /\ UNCHANGED <<lookups, first, other, steps, input_data, current_execution,
                   current_step_id,
                   result, env, returned, outcomes>>

\* lines 387-405: the loop takes the next step
SvcBeginStep ==
    /\ pc = "loop"
    /\ step_index < Len(steps)
    /\ LET e == [execution EXCEPT !.current_step = step_index + 1]
           ev == Notified(events, "step_started", step_index + 1)
       IN  \E o \in NotifyOutcomes :
              IF o = "ok"
              THEN /\ execution' = e
                   /\ events' = ev
                   /\ pc' = "await"
                   /\ UNCHANGED <<step_results, raised, returned>>
              ELSE SvcFail(e, Message("fault of the notifier", NoneV),
                           step_results, ev)
    /\ UNCHANGED <<lookups, first, other, steps, input_data, current_execution, context,
                   current_step_id, step_index, result, env, outcomes>>

\* lines 470-471 and 455-456: the loop goes on after a step that raised or
\* timed out if it may continue, and the run fails if not
SvcAfterError(step, msg, results, ev) ==
    IF step.continue_on_error
    THEN /\ step_results' = results
         /\ events' = ev
         /\ step_index' = step_index + 1
         /\ pc' = "loop"
         /\ UNCHANGED <<execution, raised, returned>>
    ELSE /\ SvcFail(execution, msg, results, ev)
         /\ step_index' = step_index

\* lines 407-441: the action returns
SvcStepReturns ==
    /\ pc = "await"
    /\ LET i == step_index + 1
           step == steps[i]
           r == SvcActionResult(step, context)
           results == Append(step_results, SvcEntry(i, step, r))
           ev == Notified(events, "step_completed", i)
       IN  /\ context' = SvcUpdateContext(context, i, r)
           /\ outcomes' = Append(outcomes, "returned")
           /\ \E o \in NotifyOutcomes :
                 IF o = "ok"
                 THEN /\ step_results' = results
                      /\ events' = ev
                      /\ step_index' = step_index + 1
                      /\ pc' = "loop"
                      /\ UNCHANGED <<execution, raised, returned>>
                 ELSE SvcAfterError(step,
                          Message("fault of the notifier", NoneV),
                          Append(results,
                                 SvcErrorEntry(i, step,
                                               "fault of the notifier")),
                          ev)
    /\ UNCHANGED <<lookups, first, other, steps, input_data, current_execution,
                   current_step_id,
                   result, env>>

\* lines 443-456: the action does not return in time
SvcStepTimesOut ==
    /\ pc = "await"
    /\ env.failure = "timeout"
    /\ steps[step_index + 1].action \in action_handlers
    /\ LET i == step_index + 1
           step == steps[i]
       IN  SvcAfterError(step, Message("timed out", step.id),
               Append(step_results, SvcErrorEntry(i, step, "timed out")),
               events)
    /\ outcomes' = Append(outcomes, "timeout")
    /\ UNCHANGED <<lookups, first, other, steps, input_data, current_execution, context,
                   current_step_id, result, env>>

\* lines 458-471: the action raises
SvcStepRaises ==
    /\ pc = "await"
    /\ env.failure = "raise"
    /\ steps[step_index + 1].action \in action_handlers
    /\ LET i == step_index + 1
           step == steps[i]
       IN  SvcAfterError(step, Message("str(e) of the fault", NoneV),
               Append(step_results,
                      SvcErrorEntry(i, step, "str(e) of the fault")),
               events)
    /\ outcomes' = Append(outcomes, "raise")
    /\ UNCHANGED <<lookups, first, other, steps, input_data, current_execution, context,
                   current_step_id, result, env>>

\* lines 473-486: every step has run
SvcComplete ==
    /\ pc = "loop"
    /\ step_index = Len(steps)
    /\ LET e == [execution EXCEPT !.status = COMPLETED,
                                  !.completed_at = "<now>",
                                  !.step_results = step_results,
                                  !.output_data = context]
           ev == Notified(events, "execution_completed", 0)
       IN  \E o \in NotifyOutcomes :
              IF o = "ok"
              THEN /\ execution' = e
                   /\ events' = ev
                   /\ pc' = "done"
                   /\ returned' = e
                   /\ UNCHANGED <<step_results, raised>>
              ELSE SvcFail(e, Message("fault of the notifier", NoneV),
                           step_results, ev)
    /\ UNCHANGED <<lookups, first, other, steps, input_data, current_execution, context,
                   current_step_id, step_index, result, env, outcomes>>

SvcNext ==
    \/ SvcNotFound
    \/ SvcNoSteps
    \/ SvcStart
    \/ SvcBeginStep
    \/ SvcStepReturns
    \/ SvcStepTimesOut
    \/ SvcStepRaises
    \/ SvcComplete

SpecSvc == SvcInit /\ [][SvcNext]_vars

----------------------------------------------------------------------------
(* The two engines on one linear playbook: the graph engine runs it, then   *)
(* the sequential engine runs the same list, every action returning what    *)
(* its name determines in both: wait succeeds, an unknown action gives a    *)
(* result with success=false                                                *)

\* The step lists whose on_success is the next element, the last having none
LinearPlaybooks ==
    UNION {{[i \in 1..n |->
               [id |-> StepIds[i], action |-> as[i], parameters |-> NoParams,
                on_success |-> IF i < n THEN StepIds[i + 1] ELSE NoneV,
                on_failure |-> NoneV, continue_on_error |-> cs[i]]] :
              as \in [1..n -> {"wait", "nonexistent_action"}],
              cs \in [1..n -> BOOLEAN]} : n \in 0..Len(StepIds)}

InitBoth ==
    /\ steps \in LinearPlaybooks
    /\ input_data = NoInput
    /\ execution = NewExecution
    /\ current_execution = FALSE
    /\ context = EmptyContext
    /\ step_results = <<>>
    /\ current_step_id = NoneV
    /\ step_index = 0
    /\ result = NoResult
    /\ pc = "idle"
    /\ raised = NoneV
    /\ env \in GraphEnvs(steps)
    /\ events = <<>>
    /\ returned = NewExecution
    /\ outcomes = <<>>
    /\ first = NoFirst
    /\ other = NoOther
    /\ lookups = <<>>

\* The graph engine has returned: the list goes to the sequential engine,
\* with a new execution record
RunSequential ==
    /\ pc = "done"
    /\ first = NoFirst
    /\ first' = [ids |-> ExecutedIds, status |-> returned.status,
                 engine |-> "graph"]
    /\ execution' = NewExecution
    /\ current_execution' = FALSE
    /\ context' = EmptyContext
    /\ step_results' = <<>>
    /\ current_step_id' = NoneV
    /\ step_index' = 0
    /\ result' = NoResult
    /\ pc' = "idle"
    /\ returned' = NewExecution
    /\ outcomes' = <<>>
    /\ UNCHANGED <<steps, input_data, raised, env, events, other, lookups>>

\* The ids of the steps a run of the sequential engine executed, in order
SvcExecutedIds ==
    [i \in 1..Len(step_results) |-> steps[step_results[i]["step"]].id]

NextBoth ==
    \/ first = NoFirst /\ Execute
    \/ first = NoFirst /\ BeginStep
    \/ first = NoFirst /\ EndStep
    \/ first = NoFirst /\ Advance
    \/ first = NoFirst /\ Complete
    \/ RunSequential
    \/ first # NoFirst /\ SvcNoSteps
    \/ first # NoFirst /\ SvcStart
    \/ first # NoFirst /\ SvcBeginStep
    \/ first # NoFirst /\ SvcStepReturns
    \/ first # NoFirst /\ SvcComplete

SpecBoth == InitBoth /\ [][NextBoth]_vars

----------------------------------------------------------------------------
(* Placeholders *)

\* The strings that are one {{key}} placeholder, and the key each names
Placeholders == {"{{alert_id}}", "{{score}}"}

PlaceholderKey(text) == IF text = "{{alert_id}}" THEN "alert_id" ELSE "score"

\* PlaybookAction._substitute_vars on a string that is one placeholder or has
\* none
substitute_vars(text, ctx) ==
    IF text \in Placeholders
    THEN Str(GetOr(ctx, PlaceholderKey(text), text))
    ELSE text

----------------------------------------------------------------------------
(* The action registry *)

MaxLookups == 2

\* The class ACTION_REGISTRY holds under each name, in the order of the dict
RegistryItems ==
    <<[key |-> "enrich_ip", cls |-> "EnrichIPAction"],
      [key |-> "enrich_domain", cls |-> "EnrichDomainAction"],
      [key |-> "enrich_hash", cls |-> "EnrichHashAction"],
      [key |-> "send_notification", cls |-> "SendNotificationAction"],
      [key |-> "update_alert", cls |-> "UpdateAlertAction"],
      [key |-> "create_incident", cls |-> "CreateIncidentAction"],
      [key |-> "run_script", cls |-> "RunScriptAction"],
      [key |-> "conditional", cls |-> "ConditionalAction"],
      [key |-> "wait", cls |-> "WaitAction"]>>

\* The name attribute of each action class
ClassName(cls) ==
    CASE cls = "EnrichIPAction" -> "enrich_ip"
      [] cls = "EnrichDomainAction" -> "enrich_domain"
      [] cls = "EnrichHashAction" -> "enrich_hash"
      [] cls = "SendNotificationAction" -> "send_notification"
      [] cls = "UpdateAlertAction" -> "update_alert"
      [] cls = "CreateIncidentAction" -> "create_incident"
      [] cls = "RunScriptAction" -> "run_script"
      [] cls = "ConditionalAction" -> "conditional"
      [] cls = "WaitAction" -> "wait"

\* An instance of an action class; NoInstance stands for None
Instance(cls) == [cls |-> cls, name |-> ClassName(cls)]

NoInstance == [cls |-> NoneV, name |-> NoneV]

\* ACTION_REGISTRY.get(action_name)
RegistryGet(action_name) ==
    LET hits == {i \in 1..Len(RegistryItems) :
                    RegistryItems[i].key = action_name}
    IN  IF hits = {} THEN NoneV ELSE RegistryItems[CHOOSE i \in hits : TRUE].cls

get_action_AlwaysEnrichIP(action_name) ==
    IF RegistryGet(action_name) # NoneV
    THEN Instance("EnrichIPAction")
    ELSE NoInstance

get_action(action_name) ==
    LET action_class == RegistryGet(action_name)
    IN  IF action_class # NoneV THEN Instance(action_class) ELSE NoInstance

list_available_actions ==
    [i \in 1..Len(RegistryItems) |->
        [name |-> RegistryItems[i].key,
         description |-> RegistryItems[i].cls]]

\* The names a caller asks for: every registered name and names that are not
\* registered
LookupNames ==
    ACTION_REGISTRY \cup {"nonexistent_action", "", "Enrich_IP", NoneV}

InitRegistry ==
    /\ steps = <<>>
    /\ input_data = NoInput
    /\ env \in GraphEnvs(steps)
    /\ execution = NewExecution
    /\ current_execution = FALSE
    /\ context = EmptyContext
    /\ step_results = <<>>
    /\ current_step_id = NoneV
    /\ step_index = 0
    /\ result = NoResult
    /\ pc = "idle"
    /\ raised = NoneV
    /\ events = <<>>
    /\ returned = NewExecution
    /\ outcomes = <<>>
    /\ first = NoFirst
    /\ other = NoOther
    /\ lookups = <<>>

GetAction ==
    /\ Len(lookups) < MaxLookups
    /\ \E action_name \in LookupNames :
          lookups' = Append(lookups,
                            [call |-> "get_action", arg |-> action_name,
                             action |-> get_action(action_name),
                             listed |-> <<>>])
    /\ UNCHANGED <<steps, input_data, execution, current_execution, context,
                   step_results, current_step_id, step_index, result, pc,
                   raised, env, events, returned, outcomes, first, other>>

ListAvailableActions ==
    /\ Len(lookups) < MaxLookups
    /\ lookups' = Append(lookups,
                         [call |-> "list_available_actions", arg |-> NoneV,
                          action |-> NoInstance,
                          listed |-> list_available_actions])
    /\ UNCHANGED <<steps, input_data, execution, current_execution, context,
                   step_results, current_step_id, step_index, result, pc,
                   raised, env, events, returned, outcomes, first, other>>

NextRegistry ==
    \/ GetAction
    \/ ListAvailableActions

SpecRegistry == InitRegistry /\ [][NextRegistry]_vars

----------------------------------------------------------------------------
(* The claims *)

Terminal == {COMPLETED, FAILED, CANCELLED}

Last(q) == q[Len(q)]

\* The step that produced the i-th step result of the graph engine
StepOfResult(i) == step_lookup(step_results[i]["step_id"])

\* C1: execute() never raises to its caller and returns the Execution with
\* status COMPLETED, FAILED or CANCELLED, whatever the steps, the actions and
\* the collaborators (record lookup, notifier) do.
C1_ExecuteNeverRaises ==
    /\ raised = NoneV
    /\ pc = "done" => returned.status \in Terminal

\* C2: status changes only along PENDING -> RUNNING and RUNNING -> COMPLETED,
\* FAILED or CANCELLED: a terminal status is never replaced and none is
\* reached but from RUNNING.
StatusStepAllowed ==
    \/ execution'.status = execution.status
    \/ execution.status = PENDING /\ execution'.status = RUNNING
    \/ execution.status = RUNNING /\ execution'.status \in Terminal

C2_StatusMachine == [][StatusStepAllowed]_vars

\* C3: a run over two steps that name each other as on_success, every step
\* succeeding, ends FAILED after exactly 2 x totalSteps step attempts.
TwoStepCycle ==
    /\ Len(steps) = 2
    /\ steps[1].on_success = steps[2].id /\ steps[2].on_success = steps[1].id
    /\ \A i \in 1..2 : steps[i].action = "enrich_ip"

AllSucceeded == \A i \in 1..Len(step_results) : Succeeded(step_results[i])

C3_CycleEndsFailed ==
    (pc = "done" /\ TwoStepCycle /\ AllSucceeded)
        => /\ returned.status = FAILED
           /\ step_index = 2 * returned.total_steps

\* C4: when a step's result has success=false and the step has
\* continue_on_error=false and no on_failure, the run ends FAILED, no further
\* step is executed and error_message carries the step's error (stated for
\* runs without a notifier, so that every entry of step_results is a result).
C4_FailedStepFailsRun ==
    (pc = "done" /\ env.notifier = "none") =>
        \A i \in 1..Len(step_results) :
            LET r == step_results[i]
                st == steps[r["step"]]
            IN  (r["success"] = "False" /\ ~st.continue_on_error
                 /\ ~Truthy(st.on_failure))
                    => /\ returned.status = FAILED
                       /\ i = Len(step_results)
                       /\ returned.error_message.about = r["error"]

\* C5: a failed step with continue_on_error=true advances to its on_success
\* target (never to on_failure, never stopping the run), its result stays in
\* step_results with success=false, and the run ends COMPLETED if every later
\* step on the path succeeds (every later id on the path is a step with an
\* action, and its result has success=true).
ContinuedFailures ==
    {i \in 1..Len(step_results) :
        ~Succeeded(step_results[i]) /\ StepOfResult(i).continue_on_error}

\* The run ended on an id that is no step, or on a step without an action
PathBroken == returned.error_message.text \in {"Step not found", "KeyError"}

C5_ContinueOnError ==
    \A i \in ContinuedFailures :
        /\ i < Len(step_results)
              => step_results[i + 1]["step_id"] = StepOfResult(i).on_success
        /\ i = Len(step_results)
              => /\ current_step_id = StepOfResult(i).on_success
                 /\ execution.error_message.text # "Step failed"
        /\ pc = "done"
              => /\ returned.step_results[i] = step_results[i]
                 /\ returned.step_results[i]["success"] = "False"
                 /\ ((\A j \in (i + 1)..Len(step_results) :
                         Succeeded(step_results[j])) /\ ~PathBroken)
                       => returned.status = COMPLETED

C5_Witness ==
    /\ pc = "done"
    /\ returned.status = COMPLETED
    /\ \E i \in ContinuedFailures :
          /\ i < Len(step_results)
          /\ Succeeded(step_results[i + 1])
          /\ Truthy(StepOfResult(i).on_failure)
          /\ StepOfResult(i).on_failure # StepOfResult(i).on_success

\* C6: the conditional action with operator equals returns success=true and
\* condition_met = (context[field] equals value), the context value being
\* the caller's input or None; the run then goes to the step's on_success
\* when condition_met is true and to its on_failure when it is false.
InputSeverity ==
    IF input_data["severity"] = Absent THEN NoneV ELSE input_data["severity"]

EqualsStep(st) ==
    /\ st.action = "conditional"
    /\ st.parameters.operator = "equals"
    /\ Truthy(st.parameters.field)

\* The id the run turned to after its i-th step result
IdAfter(i) ==
    IF i < Len(step_results) THEN step_results[i + 1]["step_id"]
    ELSE current_step_id

C6_ConditionalEquals ==
    /\ (pc = "advance" /\ EqualsStep(step_lookup(current_step_id)))
          => /\ result["success"] = "True"
             /\ result["condition_met"] =
                   PyBool(InputSeverity =
                          step_lookup(current_step_id).parameters.value)
    /\ \A i \in 1..Len(step_results) :
          EqualsStep(StepOfResult(i))
              => IdAfter(i) =
                    IF step_results[i]["condition_met"] = "True"
                    THEN StepOfResult(i).on_success
                    ELSE StepOfResult(i).on_failure

C6_Witness ==
    /\ pc = "loop"
    /\ Len(step_results) = 1
    /\ EqualsStep(StepOfResult(1))
    /\ input_data["severity"] = "low"
    /\ step_results[1]["condition_met"] = "False"
    /\ StepOfResult(1).on_success = "s1"
    /\ StepOfResult(1).on_failure = "s2"
    /\ current_step_id = "s2"

\* C7: for any step whose action raises, execute() returns with status FAILED
\* and error_step set to the step that raised (its number among the steps
\* attempted, counted from 1).
C7_FaultFailsRun ==
    pc = "done" =>
        \A i \in 1..Len(step_results) :
            step_results[i] = FaultResult(StepOfResult(i))
                => returned.status = FAILED /\ returned.error_step = i

\* C8: current_step is the number of steps attempted so far, counted from 1:
\* it is k while the k-th attempted step runs and after it, it equals the
\* length of step_results on return, and total_steps is the length of the
\* step list.
C8_CurrentStepCounts ==
    /\ pc \in {"await", "advance"} => execution.current_step = step_index
    /\ pc = "done" => returned.current_step = Len(step_results)
    /\ pc # "idle" => execution.total_steps = Len(steps)

\* C9: every execution returned FAILED has error_message and error_step set.
C9_FailedHasErrorFields ==
    (pc = "done" /\ returned.status = FAILED)
        => /\ returned.error_message # NoMessage
           /\ returned.error_step # NoStep

\* C10: a single step without on_failure and continue_on_error whose action
\* does not return in time ends the run FAILED with error_step = 1 and an
\* error_message that mentions the timeout; its entry in step_results has
\* success=false and an error that mentions the timeout.
TimeoutText == "Step timed out after N seconds"

C10_TimeoutFailsRun ==
    (/\ pc = "done"
     /\ Len(steps) = 1
     /\ ~steps[1].continue_on_error /\ ~Truthy(steps[1].on_failure)
     /\ outcomes = <<"timeout">>)
        => /\ returned.status = FAILED
           /\ returned.error_step = 1
           /\ returned.error_message.about = TimeoutText
           /\ Len(step_results) = 1
           /\ step_results[1]["success"] = "False"
           /\ step_results[1]["error"] = TimeoutText

\* C11: once cancel() has been called while a step of the run is in flight,
\* no new step is started: the loop stops at the next step boundary.
C11_CancelStopsNewSteps ==
    [][execution.status = CANCELLED => step_index' = step_index]_vars

\* C12: started_at is assigned exactly once and completed_at exactly once
\* over the life of an Execution, a cancel() during the run included, and
\* every Execution in a terminal status has both set.
\* Each assignment of a terminal status comes with one of completed_at
\* (engine.py lines 98-99, 110-113, 124-126 and 205-206), and the assignment
\* of RUNNING with the one of started_at (lines 34-35); the assignments looked
\* at are those made before execute() has returned.
CompletedAtAssigned ==
    /\ pc # "done"
    /\ execution'.status \in Terminal
    /\ execution'.status # execution.status

StartedAtAssigned ==
    execution'.status = RUNNING /\ execution.status # RUNNING

C12_TimestampsOnce ==
    [][/\ StartedAtAssigned => execution.started_at = NoneV
       /\ CompletedAtAssigned => execution.completed_at = NoneV
       /\ execution'.status \in Terminal
             => /\ execution'.started_at # NoneV
                /\ execution'.completed_at # NoneV
      ]_<<execution.status, execution.started_at, execution.completed_at>>

\* C13: step_results grows by one entry for each step run, so that its i-th
\* entry is the result of the i-th executed step, and the list stored on the
\* Execution on COMPLETED and on FAILED holds every step that was run.
C13_OneEntryPerStep ==
    /\ \A i \in 1..Len(step_results) : step_results[i]["step"] = i
    /\ (pc = "done" /\ Len(steps) > 0)
          => /\ returned.step_results = step_results
             /\ Len(returned.step_results) = Len(outcomes)

\* C14: after each step the context holds the key step_<id>_result of that
\* step, whether the step succeeded or failed.
C14_ResultKeyAlwaysSet ==
    pc \in {"loop", "done"} =>
        \A i \in 1..Len(step_results) :
            step_results[i]["success"] # Absent
                => context[ResultKey(StepIds[step_results[i]["step"]])]
                       # Absent

\* C15: the initial context of a run is the playbook's variables overridden
\* by the execution input: for a key present in both, the context the steps
\* see holds the input's value.
C15_InputOverridesVariables ==
    (pc \in {"loop", "await"} /\ input_data["severity"] # Absent)
        => context["severity"] = input_data["severity"]

\* C17: every entry of step_results carries step_id, step_name, action and
\* executed_at, the entries of an unknown action, of a timeout and of a fault
\* raised inside the action included.
C17_EntriesAreTagged ==
    \A i \in 1..Len(step_results) :
        \A k \in {"step_id", "step_name", "action", "executed_at"} :
            step_results[i][k] # Absent

\* C16: a string parameter that is a {{key}} placeholder reaches the step's
\* action with the placeholder replaced by the context's value of key (so by
\* what an earlier successful step wrote there), and unchanged when the
\* context has no such key. The alert id an update_alert step reports is the
\* one it received.
C16_ParametersAreRendered ==
    (/\ pc = "advance"
     /\ step_lookup(current_step_id).action = "update_alert"
     /\ Truthy(Get(step_lookup(current_step_id).parameters, "alert_id")))
        => result["alert_id"] =
              substitute_vars(
                  Get(step_lookup(current_step_id).parameters, "alert_id"),
                  context)

\* C18: when two executions run at the same time, interleaved where a
\* step's action is awaited, each run's context, output_data and
\* step_results hold only values of its own input and its own steps, on
\* separate engines and on the module's playbook_engine alike.
OwnIds == {steps[i].id : i \in 1..Len(steps)}

C18_RunsAreIsolated ==
    /\ pc \in {"await", "advance"}
          => /\ context[ResultKey("o1")] = Absent
             /\ context["severity"] = input_data["severity"]
    /\ pc = "done"
          => \A i \in 1..Len(returned.step_results) :
                 returned.step_results[i]["step_id"] \in OwnIds
    /\ (pc = "done" /\ returned.status = COMPLETED)
          => /\ returned.output_data[ResultKey("o1")] = Absent
             /\ returned.output_data["severity"] = input_data["severity"]
    /\ other.pc = "done"
          => /\ \A i \in 1..Len(other.step_results) :
                    other.step_results[i]["step_id"] = "o1"
             /\ \A id \in OwnIds : other.output_data[ResultKey(id)] = Absent
             /\ other.output_data["severity"] = OtherInput["severity"]

\* C19: the playbook [conditional s1 (score greater_than "50", on_success s2,
\* on_failure s3), update_alert s2, wait s3] run with input {score: "75"}
\* executes s1, then s2 and nothing else, and ends COMPLETED.
ScenarioB ==
    <<Step("s1", "conditional",
           [field |-> "score", operator |-> "greater_than", value |-> "50"],
           "s2", "s3"),
      Step("s2", "update_alert", NoParams, NoneV, NoneV),
      LastStep>>

C19_ScenarioB ==
    (/\ pc = "done"
     /\ steps = ScenarioB
     /\ input_data = [NoInput EXCEPT !["score"] = "75"])
        => /\ returned.status = COMPLETED
           /\ Len(step_results) = 2
           /\ step_results[1]["step_id"] = "s1"
           /\ step_results[2]["step_id"] = "s2"

TerminalEvents == {"execution_completed", "execution_failed"}

C21_NotifierOrder ==
    (pc = "done" /\ env.notifier = "ok" /\ Len(steps) > 0) =>
        /\ events[1].type = "execution_started"
        /\ \A k \in 1..Len(events) :
              events[k].type = "step_started"
                 => /\ k < Len(events)
                    /\ events[k + 1] = [type |-> "step_completed",
                                        step |-> events[k].step]
        /\ Last(events).type = IF returned.status = COMPLETED
                               THEN "execution_completed"
                               ELSE "execution_failed"
        /\ Cardinality({k \in 1..Len(events) :
                           events[k].type \in TerminalEvents}) = 1

\* C22: get_action(name) returns an action whose name is the requested name
\* for every name of the registry and None for every other name, and
\* list_available_actions lists exactly the registered names, each once.
C22_RegistryLookup ==
    \A i \in 1..Len(lookups) :
        LET l == lookups[i]
        IN  /\ l.call = "get_action" =>
                 IF l.arg \in ACTION_REGISTRY
                 THEN l.action # NoInstance /\ l.action.name = l.arg
                 ELSE l.action = NoInstance
            /\ l.call = "list_available_actions" =>
                 /\ {l.listed[k].name : k \in 1..Len(l.listed)}
                       = ACTION_REGISTRY
                 /\ Len(l.listed) = Cardinality(ACTION_REGISTRY)

C22_Witness ==
    /\ Len(lookups) = 2
    /\ lookups[1].call = "get_action" /\ lookups[1].arg = "wait"
    /\ lookups[1].action.name = "wait"
    /\ lookups[2].call = "get_action"
    /\ lookups[2].arg = "nonexistent_action"
    /\ lookups[2].action = NoInstance

\* C23: after a conditional step the next step is chosen by condition_met
\* alone, on_success when it is true and on_failure otherwise, for every
\* result of the step, success=false included; the rule of continue_on_error
\* and of a missing on_failure is for the other steps only.
C23_ConditionMetAlone ==
    \A i \in 1..Len(step_results) :
        StepOfResult(i).action = "conditional"
            => IdAfter(i) =
                  IF step_results[i]["condition_met"] = "True"
                  THEN StepOfResult(i).on_success
                  ELSE StepOfResult(i).on_failure

\* C24: the first step a run executes is the first element of the step list,
\* and every later executed step is the on_success or the on_failure target
\* of the step executed immediately before it: a step on no taken edge is
\* never executed (stated for the sequential engine without a notifier, so
\* that every entry of step_results is one executed step).
C24_StepsFollowEdges ==
    env.notifier = "none" =>
        \A i \in 1..Len(step_results) :
            LET st == steps[step_results[i]["step"]]
            IN  IF i = 1 THEN st = steps[1]
                ELSE LET prev == steps[step_results[i - 1]["step"]]
                     IN  st.id \in {prev.on_success, prev.on_failure}

\* C25: every run terminates, and the number of steps it executes never
\* exceeds 2 x len(steps), provided each action invocation returns, raises
\* or times out.
StepsWithinBound ==
    /\ step_index <= 2 * Len(steps)
    /\ Len(step_results) <= 2 * Len(steps)
    /\ Len(outcomes) <= 2 * Len(steps)

C25_RunTerminates == []StepsWithinBound /\ <>(pc = "done")

C25_Witness ==
    /\ pc = "done"
    /\ Len(steps) = 2
    /\ Len(step_results) = 4
    /\ step_index = 4

\* C26: when the run turns to a successor id that no step has, it ends
\* FAILED with an error_message naming the missing id, error_step equal to
\* the number of the last attempted step, and step_results holding every
\* step run before.
TurnedToMissingId ==
    /\ pc = "done"
    /\ Truthy(current_step_id) /\ ~InLookup(current_step_id)
    /\ returned.error_message.text = "Step not found"

C26_MissingSuccessor ==
    TurnedToMissingId =>
        /\ returned.status = FAILED
        /\ returned.error_message.about = current_step_id
        /\ returned.error_step = Len(step_results)
        /\ returned.step_results = step_results

\* C27: a step naming an action that is not registered produces a step
\* result with success=false and an error saying the action is unknown,
\* without raising, and the run then applies the branching of a failed step:
\* with continue_on_error it goes on, and without it and without on_failure
\* the run ends FAILED at that step (stated for the sequential engine
\* without a notifier, so that every entry of step_results is a result).
C27_UnknownActionFails ==
    env.notifier = "none" =>
        \A i \in 1..Len(step_results) :
            LET r == step_results[i]
                st == steps[r["step"]]
            IN  st.action \notin action_handlers
                    => /\ r["success"] = "False"
                       /\ r["error"] = "Unknown action type"
                       /\ raised = NoneV
                       /\ (pc = "done" /\ ~st.continue_on_error
                           /\ ~Truthy(st.on_failure))
                              => /\ returned.status = FAILED
                                 /\ i = Len(step_results)

\* C28: greater_than reads both operands as numbers: when both are numbers
\* condition_met is the numeric comparison, and when one is not (a context
\* value that is absent or empty included) the step fails with success=false,
\* never a success with condition_met=false. less_than has the same form in
\* the code; the playbooks of the model compare with greater_than.
GreaterThanStep(st) ==
    /\ st.action = "conditional"
    /\ st.parameters.operator = "greater_than"
    /\ Truthy(st.parameters.field)

C28_NumericComparison ==
    (pc = "advance" /\ InLookup(current_step_id)
     /\ GreaterThanStep(step_lookup(current_step_id))) =>
        LET p == step_lookup(current_step_id).parameters
            actual == input_data[p.field]
        IN  IF actual \in Floats /\ p.value \in Floats
            THEN /\ result["success"] = "True"
                 /\ result["condition_met"] =
                       PyBool(float(actual) > float(p.value))
            ELSE result["success"] = "False"

\* C29: execute() leaves the caller's input_data as it was passed: only the
\* run's own context and output_data hold the step results.
C29_InputUnchanged == CallerMapping = InitialContext(input_data)

\* C30: on a linear playbook (each on_success the next element, the last
\* with none) the graph engine and the sequential engine, given the same
\* outcome of every step and the same continue_on_error flags, execute the
\* same steps in the same order, record the same number of step results
\* and return the same status.
C30_EnginesAgree ==
    (pc = "done" /\ first.engine = "graph")
        => /\ SvcExecutedIds = first.ids
           /\ returned.status = first.status

====
